---- MODULE Spec2Model ----
(***************************************************************************)
(* Model of tools/slimevr_bridge.py: the USB HID -> SlimeVR UDP bridge.     *)
(*                                                                         *)
(* Two threads run while the bridge is up: the main thread (main, run and   *)
(* the poll loop with handle_tracker_data) and the daemon heartbeat thread  *)
(* (heartbeat_thread).  They share one SlimeVRProtocol object (packet_id)   *)
(* and one UDP socket, with no lock.  A thread switch can fall between any  *)
(* two bytecodes, so every build_* method is three steps: the read of       *)
(* packet_id packed into the header, the read of packet_id by "+= 1" and    *)
(* the write back.                                                          *)
(*                                                                         *)
(* Floats are kept as exact scaled integers: a quaternion component is its  *)
(* Q15 numerator (value = n / 32768), accel_z is in mg (value = n / 1000).  *)
(* clock is the last value time.time() returned, in whole seconds; the     *)
(* next call returns that value or a later one.                            *)
(* log is a history variable: the packets handed to send_to_slimevr, in     *)
(* the order of the calls, each with the outcome of sendto; an entry holds  *)
(* what the bytes of the packet say, not the bytes.                         *)
(* history tells whether the run is recorded.  With it, log and the         *)
(* counters nhandled and nbeats grow and the run handles at most MaxEvents  *)
(* readings and heartbeats.  Without it they are frozen, packet_id is kept  *)
(* modulo SeqWrap, and the two loops can run for ever (SpecLive).           *)
(***************************************************************************)
EXTENDS Integers, Sequences, FiniteSets, TLC

\* ---- bounds of the model ------------------------------------------------
MaxEvents == 2    \* readings handed to handle_tracker_data plus heartbeats built
MaxClock == 12    \* last value of the clock
MaxFailed == 1    \* sends that fail
MaxFrameLen == 13 \* longest frame handed to parse_rf_ultra_packet on its own
MaxCalls == 2     \* calls of the build_* methods of SlimeVRProtocol on its own
SeqWrap == 2      \* packet_id is kept modulo SeqWrap in a run that is not recorded

\* ---- constants of the program -------------------------------------------
PKT_HEARTBEAT == 0
PKT_HANDSHAKE == 3
PKT_BATTERY == 12
PKT_ROTATION_DATA == 17
BatteryInterval == 5
MinFrameLen == 12
\* time.time() is seconds since 1970: above BatteryInterval when the run starts
ClockStart == BatteryInterval + 1
\* time that passes between two calls of time.time(): none, exactly the
\* interval, more than the interval
ClockSteps == {0, BatteryInterval, BatteryInterval + 1}
\* tracker_id field of a packet that carries none (heartbeat)
NoTracker == 64

\* ---- frames the receiver can deliver --------------------------------------
\* header 0x00: rotation, tracker 0, q = (0x7FFF, 0, 0, 0), battery code 15
FrameRot0 == <<0, 255, 127, 0, 0, 0, 0, 0, 0, 0, 240, 0>>
\* header 0x3F: rotation, tracker 63, q = (0, 0x8000, 0, 1), accel 0x801, battery code 7
FrameRot63 == <<63, 0, 0, 0, 128, 0, 0, 1, 0, 1, 120, 0>>
\* header 0x40: device info, tracker 0
FrameInfo0 == <<64, 0, 0, 0, 0, 0, 0, 0, 0, 0, 0, 0>>
\* header 0xBF: status, tracker 63
FrameStatus63 == <<191, 0, 0, 0, 0, 0, 0, 0, 0, 0, 0, 0>>
\* header 0xC0: reserved kind
FrameReserved == <<192, 0, 0, 0, 0, 0, 0, 0, 0, 0, 0, 0>>
\* 8 bytes: too short
FrameShort == <<0, 255, 127, 0, 0, 0, 0, 0>>
Frames == {FrameRot0, FrameRot63, FrameInfo0, FrameStatus63, FrameReserved, FrameShort}

VARIABLES pollpc, hbpc, packet_id, connected_trackers, last_battery_time,
          running, hid_device, devOpen, frame, cur, ppkt, preg, pnow, hpkt, hreg,
          clock, log, openAttempts, closeCount, connectResult, exitStatus,
          nhandled, nbeats, report, seen, history

vars == <<pollpc, hbpc, packet_id, connected_trackers, last_battery_time,
          running, hid_device, devOpen, frame, cur, ppkt, preg, pnow, hpkt, hreg,
          clock, log, openAttempts, closeCount, connectResult, exitStatus,
          nhandled, nbeats, report, seen, history>>

\* ---- parse_rf_ultra_packet ------------------------------------------------
None == [type |-> "none"]
NoPkt == [type |-> 0, id |-> 0, tid |-> NoTracker, at |-> 0, rd |-> 0, data |-> <<>>]

\* struct.unpack('<h', b)[0]
unpack_h(lo, hi) == IF lo + 256 * hi >= 32768 THEN lo + 256 * hi - 65536 ELSE lo + 256 * hi
\* struct.unpack('<H', b)[0]
unpack_H(lo, hi) == lo + 256 * hi

accel_z_raw(aux) == IF (aux % 4096) > 2047 THEN (aux % 4096) - 4096 ELSE (aux % 4096)
battery_pct(aux) == (((aux \div 4096) % 16) * 100) \div 15

\* mutant of too_short: "<=" for "<"
too_short_inclusive(data) == Len(data) <= MinFrameLen
\* line 93: len(data) < 12
too_short(data) == Len(data) < MinFrameLen
\* mutant of header_type: mask 0x01 for 0x03
header_type_1bit(header) == (header \div 64) % 2
\* line 97: (header >> 6) & 0x03
header_type(header) == (header \div 64) % 4
\* mutant of header_tracker_id: mask 0x1F for 0x3F
header_tracker_id_5bits(header) == header % 32
\* line 98: header & 0x3F
header_tracker_id(header) == header % 64

parse_rf_ultra_packet(data) ==
    IF too_short(data) THEN None
    ELSE LET header == data[1]
             pkt_type == header_type(header)
             tracker_id == header_tracker_id(header)
             aux == unpack_H(data[10], data[11])
         IN CASE pkt_type = 0 ->
                   [type |-> "rotation", tracker_id |-> tracker_id,
                    quaternion |-> <<unpack_h(data[2], data[3]), unpack_h(data[4], data[5]),
                                     unpack_h(data[6], data[7]), unpack_h(data[8], data[9])>>,
                    accel_z |-> accel_z_raw(aux), battery |-> battery_pct(aux)]
              [] pkt_type = 1 -> [type |-> "device_info", tracker_id |-> tracker_id]
              [] pkt_type = 2 -> [type |-> "status", tracker_id |-> tracker_id]
              [] OTHER -> None

\* ---- struct.pack ------------------------------------------------------------
\* struct.pack('<I', n)
pack_I(n) == <<n % 256, (n \div 256) % 256, (n \div 65536) % 256, (n \div 16777216) % 256>>
\* struct.pack('<Q', n); every counter value of the model is below 2^31
pack_Q(n) == pack_I(n) \o <<0, 0, 0, 0>>
\* struct.unpack('<I', b)[0] and struct.unpack('<Q', b)[0] of such a value
unpack_I(b) == b[1] + 256 * b[2] + 65536 * b[3] + 16777216 * b[4]
unpack_Q(b) == unpack_I(b)

\* struct.pack('<f', a / q) for a > 0, q > 0: IEEE 754 binary32, round to
\* nearest even.  float_norm scales a / q into [1, 2) and counts the exponent,
\* float_frac divides out the 23 fraction bits and leaves the remainder.
RECURSIVE float_norm(_, _, _)
float_norm(a, q, e) ==
    IF a >= 2 * q THEN float_norm(a, 2 * q, e + 1)
    ELSE IF a < q THEN float_norm(2 * a, q, e - 1)
    ELSE <<a, q, e>>

RECURSIVE float_frac(_, _, _, _)
float_frac(r, q, n, acc) ==
    IF n = 0 THEN <<acc, r>>
    ELSE IF 2 * r >= q THEN float_frac(2 * r - q, q, n - 1, 2 * acc + 1)
    ELSE float_frac(2 * r, q, n - 1, 2 * acc)

float_bytes(sign, expo, frac) ==
    <<frac % 256, (frac \div 256) % 256,
      (expo % 2) * 128 + (frac \div 65536), sign * 128 + (expo \div 2)>>

pack_f(p, q) ==
    IF p = 0 THEN <<0, 0, 0, 0>>
    ELSE LET sign == IF p < 0 THEN 1 ELSE 0
             nrm == float_norm(IF p < 0 THEN -p ELSE p, q, 0)
             fr == float_frac(nrm[1] - nrm[2], nrm[2], 23, 0)
             up == 2 * fr[2] > nrm[2] \/ (2 * fr[2] = nrm[2] /\ fr[1] % 2 = 1)
             frac == IF up THEN fr[1] + 1 ELSE fr[1]
         IN IF frac = 8388608
            THEN float_bytes(sign, nrm[3] + 128, 0)
            ELSE float_bytes(sign, nrm[3] + 127, frac)

\* struct.unpack('<f', b)[0] as a Q15 numerator n (the value is n / 32768);
\* NotQ15 when the value is no multiple of 1 / 32768 within [-1, 1]
NotQ15 == 65536
RECURSIVE pow2(_)
pow2(n) == IF n = 0 THEN 1 ELSE 2 * pow2(n - 1)

unpack_f(b) ==
    LET sign == b[4] \div 128
        expo == (b[4] % 128) * 2 + b[3] \div 128
        frac == (b[3] % 128) * 65536 + b[2] * 256 + b[1]
        mant == 8388608 + frac
    IN IF expo = 0 /\ frac = 0 THEN 0
       ELSE IF expo < 112 \/ expo > 127 \/ mant % pow2(135 - expo) # 0 THEN NotQ15
       ELSE IF sign = 1 THEN 0 - mant \div pow2(135 - expo)
       ELSE mant \div pow2(135 - expo)

\* ---- the dictionary last_battery_time -------------------------------------
dict_get(d, k, default) == IF k \in DOMAIN d THEN d[k] ELSE default
dict_set(d, k, v) == (k :> v) @@ d

\* ---- conditions of handle_tracker_data and run ----------------------------
\* mutant of is_new_tracker: the membership test is lost
is_new_tracker_always(tracker_id) == TRUE
\* line 319: tracker_id not in self.connected_trackers
is_new_tracker(tracker_id) == tracker_id \notin connected_trackers
\* mutant of is_rotation: every decoded reading is treated as a rotation
is_rotation_any(data) == data.type # "none"
\* line 326: data['type'] == 'rotation'
is_rotation(data) == data.type = "rotation"
\* mutant of battery_due: ">=" for ">"
battery_due_inclusive(now, tracker_id) ==
    now - dict_get(last_battery_time, tracker_id, 0) >= BatteryInterval
\* line 338: now - self.last_battery_time.get(tracker_id, 0) > 5
battery_due(now, tracker_id) == now - dict_get(last_battery_time, tracker_id, 0) > BatteryInterval

\* positions of the main thread inside the try block of run (lines 368-385)
BuildPcs == {"hs_pack", "hs_load", "hs_store", "rot_pack", "rot_load", "rot_store",
             "bat_pack", "bat_load", "bat_store"}
SendPcs == {"hs_send", "rot_send", "bat_send"}
HandlePcs == BuildPcs \cup SendPcs \cup {"handle", "hs_add", "type_check", "now", "bat_check", "bat_mark"}
TryPcs == HandlePcs \cup {"read", "backoff", "sleep"}

\* the objects as SlimeVRBridge.__init__ and SlimeVRProtocol.__init__ leave them
constructed ==
    /\ hbpc = "idle"
    /\ packet_id = 0
    /\ connected_trackers = {}
    /\ last_battery_time = <<>>
    /\ running = FALSE
    /\ hid_device = "None"
    /\ devOpen = FALSE
    /\ cur = None
    /\ ppkt = NoPkt
    /\ preg = 0
    /\ pnow = 0
    /\ hpkt = NoPkt
    /\ hreg = 0
    /\ clock = ClockStart
    /\ log = <<>>
    /\ openAttempts = 0
    /\ closeCount = 0
    /\ connectResult = "none"
    /\ exitStatus = -1
    /\ nhandled = 0
    /\ nbeats = 0
    /\ report = -1
    /\ seen = {}

Init ==
    /\ pollpc = "main"
    /\ frame = <<>>
    /\ history = TRUE
    /\ constructed

\* ---- groups of variables ---------------------------------------------------
pollLocals == <<frame, cur, ppkt, preg, pnow>>
hbLocals == <<hpkt, hreg>>
registry == <<connected_trackers, last_battery_time>>
device == <<hid_device, devOpen, openAttempts, closeCount, connectResult>>
counters == <<nhandled, nbeats>>

\* ---- main (lines 434-448) --------------------------------------------------
\* find_device() fails: sys.exit(1)
main_no_device ==
    /\ pollpc = "main"
    /\ pollpc' = "exited"
    /\ exitStatus' = 1
    /\ UNCHANGED <<history, seen, hbpc, packet_id, registry, running, device, pollLocals, hbLocals,
                   clock, log, counters, report>>

\* find_device() succeeds: bridge.run() is called
main_run ==
    /\ pollpc = "main"
    /\ pollpc' = "connect"
    /\ UNCHANGED <<history, seen, hbpc, packet_id, registry, running, device, pollLocals, hbLocals,
                   clock, log, counters, report, exitStatus>>

\* ---- connect (lines 276-294) -----------------------------------------------
\* outcome "ok": every call succeeds, True is returned
\* outcome "open_failed": hid_device.open raises, False is returned
\* outcome "setup_failed": open succeeds, a later call of the try block raises
ConnectOutcomes == {"ok", "open_failed", "setup_failed"}

connect ==
    /\ pollpc = "connect"
    /\ \E outcome \in ConnectOutcomes :
          /\ hid_device' = "device"
          /\ openAttempts' = openAttempts + 1
          /\ devOpen' = (outcome # "open_failed")
          /\ connectResult' = outcome
    /\ pollpc' = "connected"
    /\ UNCHANGED <<history, seen, hbpc, packet_id, registry, running, closeCount, pollLocals, hbLocals,
                   clock, log, counters, report, exitStatus>>

\* ---- run (lines 353-392) ---------------------------------------------------
\* mutant of run_abort: the result of connect() is ignored
run_abort_ignored ==
    /\ pollpc = "connected"
    /\ connectResult # "ok"
    /\ running' = TRUE
    /\ hbpc' = "hb_check"
    /\ pollpc' = "read"
    /\ UNCHANGED <<history, seen, packet_id, registry, device, pollLocals, hbLocals,
                   clock, log, counters, report, exitStatus>>

\* lines 355-357: connect() returned False; run returns, main returns
run_abort ==
    /\ pollpc = "connected"
    /\ connectResult # "ok"
    /\ pollpc' = "exited"
    /\ exitStatus' = 0
    /\ UNCHANGED <<history, seen, hbpc, packet_id, registry, running, device, pollLocals, hbLocals,
                   clock, log, counters, report>>

\* lines 359-363: running = True, the heartbeat thread is started
run_start ==
    /\ pollpc = "connected"
    /\ connectResult = "ok"
    /\ running' = TRUE
    /\ hbpc' = "hb_check"
    /\ pollpc' = "read"
    /\ UNCHANGED <<history, seen, packet_id, registry, device, pollLocals, hbLocals,
                   clock, log, counters, report, exitStatus>>

\* mutant of poll_read_error: the handler gives up and clears the flag
poll_read_error_stops ==
    /\ pollpc = "read"
    /\ running
    /\ running' = FALSE
    /\ pollpc' = "backoff"
    /\ UNCHANGED <<history, seen, hbpc, packet_id, registry, device, pollLocals, hbLocals,
                   clock, log, counters, report, exitStatus>>

\* The test of line 369 is part of each read step: only the main thread
\* clears running, in the finally clause, so the test never fails there.
\* lines 369-376: hid_device.read raises; the error is logged
poll_read_error ==
    /\ pollpc = "read"
    /\ running
    /\ pollpc' = "backoff"
    /\ UNCHANGED <<history, seen, hbpc, packet_id, registry, running, device, pollLocals, hbLocals,
                   clock, log, counters, report, exitStatus>>

\* lines 375-376: time.sleep(0.1); continue
poll_backoff ==
    /\ pollpc = "backoff"
    /\ pollpc' = "read"
    /\ UNCHANGED <<history, seen, hbpc, packet_id, registry, running, device, pollLocals, hbLocals,
                   clock, log, counters, report, exitStatus>>

\* lines 372, 378: read returns no data
poll_read_empty ==
    /\ pollpc = "read"
    /\ running
    /\ frame' = <<>>
    /\ pollpc' = "sleep"
    /\ UNCHANGED <<history, seen, hbpc, packet_id, registry, running, device, cur, ppkt, preg, pnow, hbLocals,
                   clock, log, counters, report, exitStatus>>

\* lines 372, 378-381: read returns a frame, which is parsed
poll_read_frame ==
    /\ pollpc = "read"
    /\ running
    /\ \E data \in Frames :
          LET parsed == parse_rf_ultra_packet(data)
          IN /\ frame' = data
             /\ IF parsed = None
                THEN /\ pollpc' = "sleep"
                     /\ UNCHANGED <<cur, nhandled, seen>>
                ELSE /\ history => nhandled + nbeats < MaxEvents
                     /\ nhandled' = IF history THEN nhandled + 1 ELSE nhandled
                     /\ cur' = parsed
                     /\ seen' = seen \cup {parsed.tracker_id}
                     /\ pollpc' = "handle"
    /\ UNCHANGED <<history, hbpc, packet_id, registry, running, device, ppkt, preg, pnow, hbLocals,
                   clock, log, nbeats, report, exitStatus>>

\* line 384: time.sleep(0.001), back to the loop test
poll_sleep ==
    /\ pollpc = "sleep"
    /\ pollpc' = "read"
    /\ frame' = <<>>
    /\ cur' = None
    /\ UNCHANGED <<history, seen, hbpc, packet_id, registry, running, device, ppkt, preg, pnow, hbLocals,
                   clock, log, counters, report, exitStatus>>

\* lines 386-387: the stop signal. Ctrl+C raises KeyboardInterrupt in the main
\* thread, between any two steps of the try block (lines 368-385); the frames
\* of handle_tracker_data and build_* are unwound and their locals are gone
KeyboardInterrupt ==
    /\ pollpc \in TryPcs
    /\ pollpc' = "finally"
    /\ ppkt' = NoPkt
    /\ preg' = 0
    /\ pnow' = 0
    /\ UNCHANGED <<history, seen, hbpc, packet_id, registry, running, device, frame, cur, hbLocals,
                   clock, log, counters, report, exitStatus>>

\* line 389: self.running = False
run_finally ==
    /\ pollpc = "finally"
    /\ running' = FALSE
    /\ pollpc' = "disconnect"
    /\ UNCHANGED <<history, seen, hbpc, packet_id, registry, device, pollLocals, hbLocals,
                   clock, log, counters, report, exitStatus>>

\* mutant of disconnect: the handle is dropped without close()
disconnect_without_close ==
    /\ pollpc = "disconnect"
    /\ hid_device' = "None"
    /\ pollpc' = "report"
    /\ UNCHANGED <<history, seen, hbpc, packet_id, registry, running, devOpen, openAttempts, closeCount,
                   connectResult, pollLocals, hbLocals, clock, log, counters, report,
                   exitStatus>>

\* lines 296-304
disconnect ==
    /\ pollpc = "disconnect"
    /\ IF hid_device # "None"
       THEN /\ closeCount' = closeCount + 1
            /\ devOpen' = FALSE
            /\ hid_device' = "None"
       ELSE UNCHANGED <<closeCount, devOpen, hid_device>>
    /\ pollpc' = "report"
    /\ UNCHANGED <<history, seen, hbpc, packet_id, registry, running, openAttempts, connectResult,
                   pollLocals, hbLocals, clock, log, counters, report, exitStatus>>

\* line 392, then run and main return: the process exits with status 0 and
\* the daemon thread stops with it
run_report ==
    /\ pollpc = "report"
    /\ report' = Cardinality(connected_trackers)
    /\ exitStatus' = 0
    /\ pollpc' = "exited"
    /\ UNCHANGED <<history, seen, hbpc, packet_id, registry, running, device, pollLocals, hbLocals,
                   clock, log, counters>>

\* ---- SlimeVRProtocol (lines 141-238) ---------------------------------------
\* struct.pack('<I', type) and struct.pack('<Q', self.packet_id): the header
pack_header(type) == pack_I(type) \o pack_Q(packet_id)

\* line 146 and lines 180-182: mac_base with the tracker id as last byte
mac_base == <<1, 2, 3, 4, 5, 0>>
mac_address(tracker_id) == [mac_base EXCEPT ![6] = tracker_id]

\* mutant of handshake_payload: the three IMU info ints are left out
handshake_payload_no_imu_info(tracker_id) ==
    pack_I(100) \o pack_I(3) \o pack_I(100)
        \o pack_I(1) \o pack_I(0) \o pack_I(0) \o pack_I(1) \o mac_address(tracker_id)
\* lines 159-182: board, IMU, MCU, IMU info, firmware version and build, MAC
handshake_payload(tracker_id) ==
    pack_I(100) \o pack_I(3) \o pack_I(100)
        \o pack_I(0) \o pack_I(0) \o pack_I(0)
        \o pack_I(1) \o pack_I(0) \o pack_I(0) \o pack_I(1) \o mac_address(tracker_id)

\* mutant of rotation_payload: the components are written in x, y, z, w order
rotation_payload_xyzw(tracker_id, quat) ==
    <<tracker_id, 1>> \o pack_f(quat[2], 32768) \o pack_f(quat[3], 32768)
        \o pack_f(quat[4], 32768) \o pack_f(quat[1], 32768) \o <<1>>
\* lines 197-208: sensor id, data type, the four floats in list order, accuracy
rotation_payload(tracker_id, quat) ==
    <<tracker_id, 1>> \o pack_f(quat[1], 32768) \o pack_f(quat[2], 32768)
        \o pack_f(quat[3], 32768) \o pack_f(quat[4], 32768) \o <<1>>

\* lines 223-228: voltage = 3.3 + (battery_pct / 100.0) * 0.9 and battery_pct / 100.0
battery_payload(pct) ==
    pack_f(3300 + 9 * pct, 1000) \o pack_f(pct, 100)

\* the bytes each method returns, with the value packet_id has when the header is packed
build_handshake(tracker_id) == pack_header(PKT_HANDSHAKE) \o handshake_payload(tracker_id)
build_rotation(tracker_id, quat) ==
    pack_header(PKT_ROTATION_DATA) \o rotation_payload(tracker_id, quat)
build_battery(tracker_id, pct) == pack_header(PKT_BATTERY) \o battery_payload(pct)
build_heartbeat == pack_header(PKT_HEARTBEAT)

\* mutant of next_packet_id: the increment is lost
next_packet_id_stuck(v) == v
\* self.packet_id += 1: the value written back for the value v read
next_packet_id(v) == IF history THEN v + 1 ELSE (v + 1) % SeqWrap

\* the header fields read back from the bytes of a packet
packet_type(data) == unpack_I(SubSeq(data, 1, 4))
packet_number(data) == unpack_Q(SubSeq(data, 5, 12))
\* sensor id and quaternion (Q15 numerators) read back from a rotation packet
packet_rotation(data) ==
    IF packet_type(data) = PKT_ROTATION_DATA
    THEN <<data[13], unpack_f(SubSeq(data, 15, 18)), unpack_f(SubSeq(data, 19, 22)),
           unpack_f(SubSeq(data, 23, 26)), unpack_f(SubSeq(data, 27, 30))>>
    ELSE <<>>

\* a built packet: its bytes, the header fields read back from them, and the
\* arguments of the call: the tracker it is for (tid), the value of now it was
\* built for (at), the number of the reading it was built for (rd, 0 for a
\* heartbeat)
packet(data, tracker_id, at, rd) ==
    [type |-> packet_type(data), id |-> packet_number(data), tid |-> tracker_id,
     at |-> at, rd |-> rd, data |-> data]

\* ---- send_to_slimevr (lines 306-312) ---------------------------------------
\* sendto succeeds (ok) or raises, which is logged and swallowed
failed_sends == Cardinality({i \in DOMAIN log : ~log[i].ok})

send_to_slimevr(data, ok) ==
    /\ ok \/ failed_sends < MaxFailed
    /\ log' = IF history
              THEN Append(log, [type |-> data.type, id |-> data.id, tid |-> data.tid,
                                at |-> data.at, rd |-> data.rd, len |-> Len(data.data),
                                rot |-> packet_rotation(data.data), ok |-> ok])
              ELSE log

\* ---- handle_tracker_data (lines 314-344) -----------------------------------
\* line 319
handle_tracker_data ==
    /\ pollpc = "handle"
    /\ pollpc' = IF is_new_tracker(cur.tracker_id) THEN "hs_pack" ELSE "type_check"
    /\ UNCHANGED <<history, seen, hbpc, packet_id, registry, running, device, pollLocals, hbLocals,
                   clock, log, counters, report, exitStatus>>

\* build_handshake (lines 148-184), lines 153-156: the header with the value of packet_id
build_handshake_pack ==
    /\ pollpc = "hs_pack"
    /\ ppkt' = packet(build_handshake(cur.tracker_id), cur.tracker_id, 0, nhandled)
    /\ pollpc' = "hs_load"
    /\ UNCHANGED <<history, seen, hbpc, packet_id, registry, running, device, frame, cur, preg, pnow, hbLocals,
                   clock, log, counters, report, exitStatus>>

\* line 157: self.packet_id += 1, the read
build_handshake_load ==
    /\ pollpc = "hs_load"
    /\ preg' = packet_id
    /\ pollpc' = "hs_store"
    /\ UNCHANGED <<history, seen, hbpc, packet_id, registry, running, device, frame, cur, ppkt, pnow, hbLocals,
                   clock, log, counters, report, exitStatus>>

\* line 157: self.packet_id += 1, the write; the packet is returned
build_handshake_store ==
    /\ pollpc = "hs_store"
    /\ packet_id' = next_packet_id(preg)
    /\ preg' = 0
    /\ pollpc' = "hs_send"
    /\ UNCHANGED <<history, seen, hbpc, registry, running, device, frame, cur, ppkt, pnow, hbLocals,
                   clock, log, counters, report, exitStatus>>

\* line 322: send_to_slimevr
send_handshake ==
    /\ pollpc = "hs_send"
    /\ \E ok \in BOOLEAN : send_to_slimevr(ppkt, ok)
    /\ ppkt' = NoPkt
    /\ pollpc' = "hs_add"
    /\ UNCHANGED <<history, seen, hbpc, packet_id, registry, running, device, frame, cur, preg, pnow, hbLocals,
                   clock, counters, report, exitStatus>>

\* mutant of register_tracker: the battery time of a new session starts at the
\* present time
register_tracker_at_clock ==
    /\ pollpc = "hs_add"
    /\ connected_trackers' = connected_trackers \cup {cur.tracker_id}
    /\ last_battery_time' = dict_set(last_battery_time, cur.tracker_id, clock)
    /\ pollpc' = "type_check"
    /\ UNCHANGED <<history, seen, hbpc, packet_id, running, device, pollLocals, hbLocals,
                   clock, log, counters, report, exitStatus>>

\* mutant of register_tracker: the tracker is registered only if the send of
\* its handshake succeeded
register_tracker_if_sent ==
    /\ pollpc = "hs_add"
    /\ IF \E k \in DOMAIN log : /\ log[k].type = PKT_HANDSHAKE
                                 /\ log[k].tid = cur.tracker_id /\ log[k].ok
       THEN /\ connected_trackers' = connected_trackers \cup {cur.tracker_id}
            /\ last_battery_time' = dict_set(last_battery_time, cur.tracker_id, 0)
       ELSE UNCHANGED <<connected_trackers, last_battery_time>>
    /\ pollpc' = "type_check"
    /\ UNCHANGED <<history, seen, hbpc, packet_id, running, device, pollLocals, hbLocals,
                   clock, log, counters, report, exitStatus>>

\* mutant of register_tracker: the set is replaced, the earlier sessions are lost
register_tracker_replaces ==
    /\ pollpc = "hs_add"
    /\ connected_trackers' = {cur.tracker_id}
    /\ last_battery_time' = dict_set(last_battery_time, cur.tracker_id, 0)
    /\ pollpc' = "type_check"
    /\ UNCHANGED <<history, seen, hbpc, packet_id, running, device, pollLocals, hbLocals,
                   clock, log, counters, report, exitStatus>>

\* lines 323-324
register_tracker ==
    /\ pollpc = "hs_add"
    /\ connected_trackers' = connected_trackers \cup {cur.tracker_id}
    /\ last_battery_time' = dict_set(last_battery_time, cur.tracker_id, 0)
    /\ pollpc' = "type_check"
    /\ UNCHANGED <<history, seen, hbpc, packet_id, running, device, pollLocals, hbLocals,
                   clock, log, counters, report, exitStatus>>

\* line 326; a reading that is no rotation ends the call
handle_type_check ==
    /\ pollpc = "type_check"
    /\ pollpc' = IF is_rotation(cur) THEN "rot_pack" ELSE "sleep"
    /\ UNCHANGED <<history, seen, hbpc, packet_id, registry, running, device, pollLocals, hbLocals,
                   clock, log, counters, report, exitStatus>>

\* build_rotation (lines 186-210), lines 191-194: the header with the value of packet_id
build_rotation_pack ==
    /\ pollpc = "rot_pack"
    /\ ppkt' = packet(build_rotation(cur.tracker_id, cur.quaternion), cur.tracker_id, 0, nhandled)
    /\ pollpc' = "rot_load"
    /\ UNCHANGED <<history, seen, hbpc, packet_id, registry, running, device, frame, cur, preg, pnow, hbLocals,
                   clock, log, counters, report, exitStatus>>

\* line 195: self.packet_id += 1, the read
build_rotation_load ==
    /\ pollpc = "rot_load"
    /\ preg' = packet_id
    /\ pollpc' = "rot_store"
    /\ UNCHANGED <<history, seen, hbpc, packet_id, registry, running, device, frame, cur, ppkt, pnow, hbLocals,
                   clock, log, counters, report, exitStatus>>

\* line 195: self.packet_id += 1, the write; the packet is returned
build_rotation_store ==
    /\ pollpc = "rot_store"
    /\ packet_id' = next_packet_id(preg)
    /\ preg' = 0
    /\ pollpc' = "rot_send"
    /\ UNCHANGED <<history, seen, hbpc, registry, running, device, frame, cur, ppkt, pnow, hbLocals,
                   clock, log, counters, report, exitStatus>>

\* line 332: send_to_slimevr
send_rotation ==
    /\ pollpc = "rot_send"
    /\ \E ok \in BOOLEAN : send_to_slimevr(ppkt, ok)
    /\ ppkt' = NoPkt
    /\ pollpc' = "now"
    /\ UNCHANGED <<history, seen, hbpc, packet_id, registry, running, device, frame, cur, preg, pnow, hbLocals,
                   clock, counters, report, exitStatus>>

\* lines 337-338: now = time.time() and the test of the interval
handle_battery_check ==
    /\ pollpc = "now"
    /\ \E now \in {clock + d : d \in ClockSteps} :
          /\ now <= MaxClock
          /\ clock' = now
          /\ pnow' = now
          /\ pollpc' = IF battery_due(now, cur.tracker_id) THEN "bat_pack" ELSE "sleep"
    /\ UNCHANGED <<history, seen, hbpc, packet_id, registry, running, device, frame, cur, ppkt, preg, hbLocals,
                   log, counters, report, exitStatus>>

\* build_battery (lines 212-230), lines 217-220: the header with the value of packet_id
build_battery_pack ==
    /\ pollpc = "bat_pack"
    /\ ppkt' = packet(build_battery(cur.tracker_id, cur.battery), cur.tracker_id, pnow, nhandled)
    /\ pollpc' = "bat_load"
    /\ UNCHANGED <<history, seen, hbpc, packet_id, registry, running, device, frame, cur, preg, pnow, hbLocals,
                   clock, log, counters, report, exitStatus>>

\* line 221: self.packet_id += 1, the read
build_battery_load ==
    /\ pollpc = "bat_load"
    /\ preg' = packet_id
    /\ pollpc' = "bat_store"
    /\ UNCHANGED <<history, seen, hbpc, packet_id, registry, running, device, frame, cur, ppkt, pnow, hbLocals,
                   clock, log, counters, report, exitStatus>>

\* line 221: self.packet_id += 1, the write; the packet is returned
build_battery_store ==
    /\ pollpc = "bat_store"
    /\ packet_id' = next_packet_id(preg)
    /\ preg' = 0
    /\ pollpc' = "bat_send"
    /\ UNCHANGED <<history, seen, hbpc, registry, running, device, frame, cur, ppkt, pnow, hbLocals,
                   clock, log, counters, report, exitStatus>>

\* line 343: send_to_slimevr
send_battery ==
    /\ pollpc = "bat_send"
    /\ \E ok \in BOOLEAN : send_to_slimevr(ppkt, ok)
    /\ ppkt' = NoPkt
    /\ pollpc' = "bat_mark"
    /\ UNCHANGED <<history, seen, hbpc, packet_id, registry, running, device, frame, cur, preg, pnow, hbLocals,
                   clock, counters, report, exitStatus>>

\* line 344
mark_battery_sent ==
    /\ pollpc = "bat_mark"
    /\ last_battery_time' = dict_set(last_battery_time, cur.tracker_id, pnow)
    /\ pollpc' = "sleep"
    /\ UNCHANGED <<history, seen, hbpc, packet_id, connected_trackers, running, device, pollLocals, hbLocals,
                   clock, log, counters, report, exitStatus>>

\* ---- heartbeat_thread (lines 346-351) --------------------------------------
\* the daemon thread runs only while the process lives
process_alive == pollpc # "exited"

\* line 348: while self.running
heartbeat_check ==
    /\ hbpc = "hb_check"
    /\ process_alive
    /\ IF running
       THEN /\ history => nhandled + nbeats < MaxEvents
            /\ nbeats' = IF history THEN nbeats + 1 ELSE nbeats
            /\ hbpc' = "hb_pack"
       ELSE /\ hbpc' = "done"
            /\ UNCHANGED nbeats
    /\ UNCHANGED <<history, seen, pollpc, packet_id, registry, running, device, pollLocals, hbLocals,
                   clock, log, nhandled, report, exitStatus>>

\* line 349: build_heartbeat (lines 232-238)
build_heartbeat_pack ==
    /\ hbpc = "hb_pack"
    /\ process_alive
    /\ hpkt' = packet(build_heartbeat, NoTracker, 0, 0)
    /\ hbpc' = "hb_load"
    /\ UNCHANGED <<history, seen, pollpc, packet_id, registry, running, device, pollLocals, hreg,
                   clock, log, counters, report, exitStatus>>

build_heartbeat_load ==
    /\ hbpc = "hb_load"
    /\ process_alive
    /\ hreg' = packet_id
    /\ hbpc' = "hb_store"
    /\ UNCHANGED <<history, seen, pollpc, packet_id, registry, running, device, pollLocals, hpkt,
                   clock, log, counters, report, exitStatus>>

build_heartbeat_store ==
    /\ hbpc = "hb_store"
    /\ process_alive
    /\ packet_id' = next_packet_id(hreg)
    /\ hreg' = 0
    /\ hbpc' = "hb_send"
    /\ UNCHANGED <<history, seen, pollpc, registry, running, device, pollLocals, hpkt,
                   clock, log, counters, report, exitStatus>>

\* mutant of heartbeat_sleep: the thread ends when the send has failed
heartbeat_sleep_if_sent(ok) == IF ok THEN "hb_check" ELSE "done"
\* line 351: time.sleep(1) returns and the loop tests self.running again,
\* whatever the outcome of the send
heartbeat_sleep(ok) == "hb_check"

\* mutant of send_heartbeat: the heartbeat thread drops the sessions
send_heartbeat_evicts ==
    /\ hbpc = "hb_send"
    /\ process_alive
    /\ \E ok \in BOOLEAN : send_to_slimevr(hpkt, ok)
    /\ hpkt' = NoPkt
    /\ hbpc' = "hb_check"
    /\ connected_trackers' = {}
    /\ UNCHANGED <<history, seen, pollpc, packet_id, last_battery_time, running, device, pollLocals, hreg,
                   clock, counters, report, exitStatus>>

\* lines 350-351: the send, then time.sleep(1)
send_heartbeat ==
    /\ hbpc = "hb_send"
    /\ process_alive
    /\ \E ok \in BOOLEAN :
          /\ send_to_slimevr(hpkt, ok)
          /\ hbpc' = heartbeat_sleep(ok)
    /\ hpkt' = NoPkt
    /\ UNCHANGED <<history, seen, pollpc, packet_id, registry, running, device, pollLocals, hreg,
                   clock, counters, report, exitStatus>>

Next ==
    \/ main_no_device
    \/ main_run
    \/ connect
    \/ run_abort
    \/ run_start
    \/ poll_read_error
    \/ poll_backoff
    \/ poll_read_empty
    \/ poll_read_frame
    \/ poll_sleep
    \/ handle_tracker_data
    \/ build_handshake_pack
    \/ build_handshake_load
    \/ build_handshake_store
    \/ send_handshake
    \/ register_tracker
    \/ handle_type_check
    \/ build_rotation_pack
    \/ build_rotation_load
    \/ build_rotation_store
    \/ send_rotation
    \/ handle_battery_check
    \/ build_battery_pack
    \/ build_battery_load
    \/ build_battery_store
    \/ send_battery
    \/ mark_battery_sent
    \/ heartbeat_check
    \/ build_heartbeat_pack
    \/ build_heartbeat_load
    \/ build_heartbeat_store
    \/ send_heartbeat
    \/ KeyboardInterrupt
    \/ run_finally
    \/ disconnect
    \/ run_report

Spec == Init /\ [][Next]_vars

\* ---- the run that is not recorded, with a fair heartbeat thread -----------
InitLive ==
    /\ pollpc = "main"
    /\ frame = <<>>
    /\ history = FALSE
    /\ constructed

\* one step of heartbeat_thread (lines 346-351)
heartbeat_thread ==
    \/ heartbeat_check
    \/ build_heartbeat_pack
    \/ build_heartbeat_load
    \/ build_heartbeat_store
    \/ send_heartbeat

\* The heartbeat thread is an operating system thread of its own: while it
\* can take a step it is scheduled in the end, and time.sleep(1) returns.
\* Nothing is assumed of the main thread or of the device.
SpecLive == InitLive /\ [][Next]_vars /\ WF_vars(heartbeat_thread)

\* ---- SlimeVRProtocol on its own (lines 141-238) ---------------------------
\* One thread calls the build_* methods one after the other, MaxCalls times,
\* and hands each packet to the socket; log is the sequence of the packets.
EncQuats == {<<32767, 0, 0, 0>>, <<0, -32768, 0, 1>>, <<-1, 16384, -16384, 12345>>}
EncBattery == {battery_pct(code * 4096) : code \in 0..15}

InitEncoder ==
    /\ pollpc = "encode"
    /\ frame = <<>>
    /\ history = TRUE
    /\ constructed

encode_handshake ==
    /\ pollpc = "encode"
    /\ Len(log) < MaxCalls
    /\ \E tracker_id \in 0..63 :
          LET pkt == packet(build_handshake(tracker_id), tracker_id, 0, 0)
          IN /\ ppkt' = pkt
             /\ send_to_slimevr(pkt, TRUE)
    /\ packet_id' = next_packet_id(packet_id)
    /\ UNCHANGED <<history, seen, pollpc, hbpc, registry, running, device, frame, cur, preg, pnow,
                   hbLocals, clock, counters, report, exitStatus>>

encode_rotation ==
    /\ pollpc = "encode"
    /\ Len(log) < MaxCalls
    /\ \E tracker_id \in {0, 63}, quat \in EncQuats :
          LET pkt == packet(build_rotation(tracker_id, quat), tracker_id, 0, 0)
          IN /\ ppkt' = pkt
             /\ send_to_slimevr(pkt, TRUE)
    /\ packet_id' = next_packet_id(packet_id)
    /\ UNCHANGED <<history, seen, pollpc, hbpc, registry, running, device, frame, cur, preg, pnow,
                   hbLocals, clock, counters, report, exitStatus>>

encode_battery ==
    /\ pollpc = "encode"
    /\ Len(log) < MaxCalls
    /\ \E tracker_id \in {0, 63}, pct \in EncBattery :
          LET pkt == packet(build_battery(tracker_id, pct), tracker_id, 0, 0)
          IN /\ ppkt' = pkt
             /\ send_to_slimevr(pkt, TRUE)
    /\ packet_id' = next_packet_id(packet_id)
    /\ UNCHANGED <<history, seen, pollpc, hbpc, registry, running, device, frame, cur, preg, pnow,
                   hbLocals, clock, counters, report, exitStatus>>

encode_heartbeat ==
    /\ pollpc = "encode"
    /\ Len(log) < MaxCalls
    /\ LET pkt == packet(build_heartbeat, NoTracker, 0, 0)
       IN /\ ppkt' = pkt
          /\ send_to_slimevr(pkt, TRUE)
    /\ packet_id' = next_packet_id(packet_id)
    /\ UNCHANGED <<history, seen, pollpc, hbpc, registry, running, device, frame, cur, preg, pnow,
                   hbLocals, clock, counters, report, exitStatus>>

NextEncoder ==
    \/ encode_handshake
    \/ encode_rotation
    \/ encode_battery
    \/ encode_heartbeat

SpecEncoder == InitEncoder /\ [][NextEncoder]_vars

\* ---- parse_rf_ultra_packet on its own (lines 83-135) ----------------------
\* The frames handed to the function: every length up to MaxFrameLen, every
\* header byte, the other bytes all equal to one of FillBytes.
FillBytes == {0, 127, 128, 255}
CodecFrames ==
    {[i \in 1..n |-> IF i = 1 THEN h ELSE b] : n \in 0..MaxFrameLen, h \in 0..255, b \in FillBytes}

InitDecoder ==
    /\ pollpc = "decode"
    /\ frame \in CodecFrames
    /\ history = TRUE
    /\ constructed

\* one call: parsed = parse_rf_ultra_packet(bytes(data))
decode_frame ==
    /\ pollpc = "decode"
    /\ cur' = parse_rf_ultra_packet(frame)
    /\ pollpc' = "decoded"
    /\ UNCHANGED <<history, seen, hbpc, packet_id, registry, running, device, frame, ppkt, preg, pnow,
                   hbLocals, clock, log, counters, report, exitStatus>>

NextDecoder == decode_frame

SpecDecoder == InitDecoder /\ [][NextDecoder]_vars

\* ---- properties ------------------------------------------------------------
InFlightPcs == {"hs_load", "hs_store", "hs_send", "rot_load", "rot_store", "rot_send",
                "bat_load", "bat_store", "bat_send"}
HbInFlightPcs == {"hb_load", "hb_store", "hb_send"}
\* the main thread is between two build-and-send calls of the poll loop
poll_between_packets == pollpc \in TryPcs \ InFlightPcs
hb_between_packets == hbpc \notin HbInFlightPcs
emitted(type, tracker_id) == {i \in DOMAIN log : log[i].type = type /\ log[i].tid = tracker_id}

\* C1: the packets handed to the socket by the two threads carry pairwise
\* different sequence numbers, and whenever no packet is being built or sent
\* the N packets of the log carry exactly the numbers 0..N-1.
C1_SequenceNumbersUnique ==
    /\ \A i, j \in DOMAIN log : i # j => log[i].id # log[j].id
    /\ (poll_between_packets /\ hb_between_packets)
          => {log[i].id : i \in DOMAIN log} = 0..(Len(log) - 1)

\* C2: for every tracker the first packet emitted for it is a handshake and
\* no later packet for it is a handshake.
C2_HandshakeFirstAndOnce ==
    \A i \in DOMAIN log :
        log[i].tid # NoTracker =>
            (log[i].type = PKT_HANDSHAKE <=> \A j \in 1..(i - 1) : log[j].tid # log[i].tid)

\* C2 witness: a tracker observed twice: handshake, then two rotation packets.
C2_Witness ==
    \E i, j, k \in DOMAIN log :
        /\ i < j /\ j < k
        /\ log[i].type = PKT_HANDSHAKE
        /\ log[j].type = PKT_ROTATION_DATA /\ log[k].type = PKT_ROTATION_DATA
        /\ log[i].tid = log[j].tid /\ log[j].tid = log[k].tid

\* C3: two battery packets of one tracker are more than BatteryInterval apart
\* (by the value of now each was built for); while a battery packet is built
\* and sent the resend is due; the test of line 338 leads to build_battery
\* exactly when now - last_battery_time > BatteryInterval; after the send
\* last_battery_time of the tracker is now.
C3_BatterySpacing ==
    /\ \A i, j \in DOMAIN log :
          (i < j /\ log[i].type = PKT_BATTERY /\ log[j].type = PKT_BATTERY
                 /\ log[i].tid = log[j].tid)
             => log[j].at - log[i].at > BatteryInterval
    /\ pollpc \in {"bat_pack", "bat_load", "bat_store", "bat_send", "bat_mark"}
          => /\ cur.type = "rotation"
             /\ pnow - dict_get(last_battery_time, cur.tracker_id, 0) > BatteryInterval

C3_BatteryDecision ==
    /\ (pollpc = "now" /\ pollpc' \in {"bat_pack", "sleep"})
          => (pollpc' = "bat_pack"
                <=> pnow' - dict_get(last_battery_time, cur.tracker_id, 0) > BatteryInterval)
    /\ (pollpc = "bat_mark" /\ pollpc' = "sleep")
          => /\ last_battery_time'[cur.tracker_id] = pnow
             /\ \E i \in emitted(PKT_BATTERY, cur.tracker_id) : log[i].at = pnow
    /\ (Len(log') > Len(log) /\ log'[Len(log')].type = PKT_BATTERY)
          => pollpc = "bat_send"

C3_BatteryInterval == []C3_BatterySpacing /\ [][C3_BatteryDecision]_vars

\* C3 witness: two battery packets were emitted for one tracker.
C3_Witness ==
    \/ Cardinality(emitted(PKT_BATTERY, 0)) = 2
    \/ Cardinality(emitted(PKT_BATTERY, 63)) = 2

\* C4: once the device handle is closed the heartbeat thread builds and sends
\* no packet.
C4_NoHeartbeatAfterClose == [][closeCount > 0 => (hpkt' = hpkt /\ log' = log)]_vars

\* C5: the handle is closed at most once; a run that started the two loops
\* ends with the handle closed once and hid_device None; the device is read
\* only while it is open and was never closed.
C5_ClosedExactlyOnce ==
    /\ closeCount <= 1
    /\ (hbpc # "idle" /\ pollpc \in {"report", "exited"})
          => (closeCount = 1 /\ ~devOpen /\ hid_device = "None" /\ ~running)
    /\ pollpc = "read" => (devOpen /\ closeCount = 0)

\* C5 witness: a run that was Running has stopped and exited.
C5_Witness == hbpc # "idle" /\ pollpc = "exited" /\ closeCount = 1

\* C6: after a failed open there was one open attempt, no loop was started,
\* running was never set, nothing was built or sent, counter and registry are
\* as constructed, and the run is over with no open device.
C6_OpenFailureAborts ==
    connectResult = "open_failed" =>
        /\ openAttempts = 1
        /\ pollpc \in {"connected", "exited"}
        /\ hbpc = "idle"
        /\ ~running
        /\ ~devOpen
        /\ log = <<>> /\ ppkt = NoPkt /\ hpkt = NoPkt
        /\ packet_id = 0
        /\ connected_trackers = {} /\ last_battery_time = <<>>

\* C6 witness: the open failed and the process has ended.
C6_Witness == connectResult = "open_failed" /\ pollpc = "exited"

\* C7: a run ended by a connect failure exits with a non-zero status, a run
\* ended by a normal stop exits with status zero.
C7_ExitStatus ==
    pollpc = "exited" =>
        /\ connectResult \in {"open_failed", "setup_failed"} => exitStatus # 0
        /\ (connectResult = "ok") => exitStatus = 0

\* C8: a read error leaves the run Running (flag set, device open, heartbeat
\* thread alive), changes neither counter, registry nor log, builds no
\* packet, and the poll loop goes back to the read.
C8_RunningAfterError ==
    pollpc = "backoff" =>
        (running /\ devOpen /\ closeCount = 0 /\ hbpc \notin {"idle", "done"} /\ ppkt = NoPkt)

C8_ErrorStep ==
    /\ (pollpc = "read" /\ pollpc' = "backoff")
          => /\ running' /\ devOpen'
             /\ UNCHANGED <<packet_id, connected_trackers, last_battery_time, log, ppkt, hbpc>>
    /\ (pollpc = "backoff" /\ pollpc' # "backoff") => pollpc' \in {"read", "finally"}

C8_ReadErrorRecoverable == []C8_RunningAfterError /\ [][C8_ErrorStep]_vars

\* C8 witness: a read error after a reading was handled and a packet sent.
C8_Witness == pollpc = "backoff" /\ nhandled > 0 /\ Len(log) > 0

\* C9: the sequence number of a packet whose send failed is carried by no
\* other packet.
C9_FailedNumberNotReused ==
    \A i \in DOMAIN log :
        ~log[i].ok => \A j \in DOMAIN log : j # i => log[j].id # log[i].id

\* C10 as stated: no step of handling a DeviceInfo or Status reading builds or
\* sends a packet or writes the sequence counter.
info_or_status_step ==
    /\ cur.type \in {"device_info", "status"}
    /\ pollpc \in HandlePcs
    /\ pollpc' # pollpc

C10_NoPacketForInfoStatus ==
    [][info_or_status_step => (log' = log /\ ppkt' = ppkt /\ packet_id' = packet_id)]_vars

\* C10 amended: handling a DeviceInfo or Status reading builds and sends no
\* rotation and no battery packet; for a registered tracker it builds and
\* sends nothing and does not write the counter; for a new tracker the only
\* packet is the handshake of that tracker, and the tracker is registered
\* when the handling ends, which is at the test of the type (line 326).
C10_InfoStatusStep ==
    info_or_status_step =>
        /\ ppkt'.type \notin {PKT_ROTATION_DATA, PKT_BATTERY}
        /\ log' # log => /\ log'[Len(log')].type = PKT_HANDSHAKE
                         /\ log'[Len(log')].tid = cur.tracker_id
        /\ cur.tracker_id \in connected_trackers
              => (log' = log /\ ppkt' = ppkt /\ packet_id' = packet_id)
        /\ pollpc = "type_check" => pollpc' \in {"sleep", "finally"}
        /\ pollpc' = "sleep"
              => /\ cur.tracker_id \in connected_trackers
                 /\ Cardinality(emitted(PKT_HANDSHAKE, cur.tracker_id)) = 1

C10_InfoStatusBookkeeping == [][C10_InfoStatusStep]_vars

\* C10 witness: a DeviceInfo or Status reading of a tracker that already sent
\* rotation data has been handled.
C10_Witness ==
    /\ cur.type \in {"device_info", "status"}
    /\ pollpc = "sleep"
    /\ emitted(PKT_ROTATION_DATA, cur.tracker_id) # {}

\* C17: packets reach send_to_slimevr in increasing order of their sequence
\* numbers: no packet handed to the socket carries a lower number than a
\* packet handed to it before.
C17_SendOrderIncreasing ==
    \A i, j \in DOMAIN log : (i < j /\ log[i].ok /\ log[j].ok) => log[i].id <= log[j].id

\* C20: every step of the heartbeat thread leaves connected_trackers and
\* last_battery_time unchanged, and while the heartbeat thread is between two
\* of its steps only steps of the main thread change them.
heartbeat_step == hbpc' # hbpc /\ hbpc # "idle"

C20_HeartbeatStep ==
    /\ heartbeat_step => UNCHANGED <<connected_trackers, last_battery_time>>
    /\ (connected_trackers' # connected_trackers \/ last_battery_time' # last_battery_time)
          => (pollpc \in {"hs_add", "bat_mark"} /\ pollpc' # pollpc /\ hbpc' = hbpc)

C20_RegistryOnlyPollLoop == [][C20_HeartbeatStep]_vars

\* C20 witness: a heartbeat is built and about to be sent while a tracker is
\* registered with a battery time.
C20_Witness ==
    /\ hbpc = "hb_send"
    /\ connected_trackers # {}
    /\ \E t \in DOMAIN last_battery_time : last_battery_time[t] > 0

\* bits [7:6] of the header byte, as the frame layout numbers the kinds
KindSelector(type) ==
    CASE type = "rotation" -> 0
      [] type = "device_info" -> 1
      [] type = "status" -> 2

\* C14: parse_rf_ultra_packet returns None for every frame shorter than 12
\* bytes and for every longer frame whose header bits [7:6] are 3; for header
\* bits 0, 1, 2 it returns a rotation, device_info, status reading; the call
\* can be made for every frame (it raises for none).
C14_DecodeFailsSoft ==
    /\ pollpc = "decode" => ENABLED decode_frame
    /\ pollpc = "decoded" =>
          /\ Len(frame) < 12 => cur = None
          /\ (Len(frame) >= 12 /\ frame[1] \div 64 = 3) => cur = None
          /\ (Len(frame) >= 12 /\ frame[1] \div 64 = 0) => cur.type = "rotation"
          /\ (Len(frame) >= 12 /\ frame[1] \div 64 = 1) => cur.type = "device_info"
          /\ (Len(frame) >= 12 /\ frame[1] \div 64 = 2) => cur.type = "status"

\* C14 witness: a frame of 8 bytes was decoded to None.
C14_Witness == pollpc = "decoded" /\ Len(frame) = 8 /\ cur = None

\* C15: for every 12-byte frame whose header bits [7:6] are 0, the reading is
\* a rotation, its tracker_id is in 0..63 and (kind << 6) | tracker_id of the
\* reading is byte 0 of the frame; the same holds for every reading decoded
\* from a frame of any length.
C15_HeaderRoundTrip ==
    /\ (pollpc = "decoded" /\ Len(frame) = 12 /\ frame[1] < 64)
          => (cur # None /\ cur.type = "rotation")
    /\ (pollpc = "decoded" /\ cur # None)
          => /\ cur.tracker_id \in 0..63
             /\ KindSelector(cur.type) * 64 + cur.tracker_id = frame[1]

\* C15 witness: the 12-byte rotation frame of tracker 63 was decoded.
C15_Witness ==
    /\ pollpc = "decoded" /\ Len(frame) = 12 /\ frame[1] = 63
    /\ cur # None /\ cur.tracker_id = 63

\* positions of the main thread from the call of handle_tracker_data to the
\* registration of a new tracker (lines 316-323)
RegistrationPcs == {"handle", "hs_pack", "hs_load", "hs_store", "hs_send", "hs_add"}

\* C13: connected_trackers only grows and holds exactly the tracker ids of the
\* readings handed to handle_tracker_data, except the id of the reading whose
\* handling has not reached line 323 (in progress, or cut off there by the
\* stop signal); every member is in 0..63; the report of line 392 is the size
\* of the set.
C13_RegistryIsSeen ==
    /\ connected_trackers \subseteq seen
    /\ seen \subseteq 0..63
    /\ Cardinality(connected_trackers) <= 64
    /\ seen \ connected_trackers \subseteq (IF cur = None THEN {} ELSE {cur.tracker_id})
    /\ pollpc \in TryPcs \ RegistrationPcs => connected_trackers = seen
    /\ report # -1 => report = Cardinality(connected_trackers)
    /\ (pollpc = "exited" /\ hbpc # "idle") => report = Cardinality(connected_trackers)

C13_RegistryGrows ==
    /\ connected_trackers \subseteq connected_trackers'
    /\ seen \subseteq seen'

C13_NoEviction == []C13_RegistryIsSeen /\ [][C13_RegistryGrows]_vars

\* C13 witness: readings of two trackers were handled, the run was stopped
\* and reported two trackers.
C13_Witness == pollpc = "exited" /\ report = 2 /\ seen = {0, 63}

\* a read that returns nothing, a frame too short, a frame of the reserved kind
dropped(data) == Len(data) < 12 \/ data[1] \div 64 = 3

\* C19: a read that returns no data or a frame that decodes to None takes the
\* poll loop straight to the sleep of line 384 and back to the read: nothing
\* is built or sent, packet_id, connected_trackers and last_battery_time are
\* unchanged and running stays set; every other frame is handled.
C19_Dropped ==
    (pollpc = "sleep" /\ dropped(frame)) => (running /\ devOpen /\ cur = None /\ ppkt = NoPkt)

C19_DropStep ==
    /\ (pollpc = "read" /\ pollpc' \in {"sleep", "handle"})
          => /\ pollpc' = "sleep" <=> dropped(frame')
             /\ pollpc' = "sleep"
                   => /\ running'
                      /\ UNCHANGED <<packet_id, connected_trackers, last_battery_time,
                                     log, ppkt, cur, seen>>
    /\ (pollpc = "sleep" /\ dropped(frame) /\ pollpc' # pollpc)
          => /\ pollpc' \in {"read", "finally"}
             /\ UNCHANGED <<packet_id, connected_trackers, last_battery_time, log, running>>

C19_NullReadDropped == []C19_Dropped /\ [][C19_DropStep]_vars

\* C19 witness: a frame of the reserved kind was dropped after a tracker was
\* registered and packets were sent.
C19_Witness ==
    /\ pollpc = "sleep" /\ frame = FrameReserved
    /\ connected_trackers # {} /\ Len(log) > 0

\* C11: with calls that do not overlap, the k-th call (from 0) of a build_*
\* method, of whatever kind, writes k into bytes 4..11 of its packet, and
\* packet_id is the number of calls made: it starts at 0 and every call adds 1.
C11_CallNumberStamped ==
    /\ packet_id = Len(log)
    /\ \A k \in DOMAIN log : log[k].id = k - 1
    /\ log # <<>> => /\ packet_number(ppkt.data) = Len(log) - 1
                     /\ Len(ppkt.data) = log[Len(log)].len

\* C11 witness: a heartbeat, then a handshake stamped 1.
C11_Witness ==
    /\ Len(log) = 2
    /\ log[1].type = PKT_HEARTBEAT /\ log[2].type = PKT_HANDSHAKE
    /\ log[2].id = 1 /\ packet_id = 2

\* C16 as stated: a handshake packet is 53 bytes long, 41 bytes after the
\* 12-byte header.
C16_HandshakePayload41 ==
    (log # <<>> /\ ppkt.type = PKT_HANDSHAKE) => Len(ppkt.data) - 12 = 41

\* C16 amended: for every tracker id in 0..63 a handshake packet is 58 bytes
\* long, 46 bytes after the 12-byte header, and its last byte is the tracker id.
C16_HandshakePayload46 ==
    (log # <<>> /\ ppkt.type = PKT_HANDSHAKE)
        => /\ Len(ppkt.data) = 58
           /\ Len(ppkt.data) - 12 = 46
           /\ ppkt.data[58] = ppkt.tid
           /\ log[Len(log)].len = 58

\* C16 witness: the handshake of tracker 63 was built as the second packet.
C16_Witness == Len(log) = 2 /\ ppkt.type = PKT_HANDSHAKE /\ ppkt.tid = 63

\* the packets the main thread handed to the socket for the reading in hand
of_reading(e) == e.rd = nhandled
reading_log == SelectSeq(log, of_reading)
reading_types == [i \in DOMAIN reading_log |-> reading_log[i].type]
RotationOrders ==
    {<<PKT_ROTATION_DATA>>, <<PKT_HANDSHAKE, PKT_ROTATION_DATA>>,
     <<PKT_ROTATION_DATA, PKT_BATTERY>>,
     <<PKT_HANDSHAKE, PKT_ROTATION_DATA, PKT_BATTERY>>}
is_prefix(s, t) == Len(s) <= Len(t) /\ \A i \in DOMAIN s : s[i] = t[i]
AfterRotationPcs == {"now", "bat_pack", "bat_load", "bat_store", "bat_send", "bat_mark", "sleep"}

\* C18: the packets sent for one rotation reading are, in this order, the
\* handshake (exactly when no earlier reading had the tracker id), one
\* rotation packet, the battery packet (if any); once build_rotation's packet
\* is sent there is exactly one rotation packet, 31 bytes long, whose sensor
\* byte is the reading's tracker_id and whose four floats are the reading's
\* quaternion in the order w, x, y, z; every packet is for that tracker.
C18_OneRotationInOrder ==
    (cur # None /\ cur.type = "rotation" /\ nhandled > 0) =>
        /\ \E full \in RotationOrders : is_prefix(reading_types, full)
        /\ \A i \in DOMAIN reading_log :
              /\ reading_log[i].tid = cur.tracker_id
              /\ reading_log[i].type = PKT_ROTATION_DATA
                    => /\ reading_log[i].rot = <<cur.tracker_id>> \o cur.quaternion
                       /\ reading_log[i].len = 31
        /\ reading_log # <<>>
              => (reading_log[1].type = PKT_HANDSHAKE
                    <=> \A k \in DOMAIN log :
                            log[k].tid = cur.tracker_id => log[k].rd = nhandled)
        /\ pollpc \in AfterRotationPcs
              => Cardinality({i \in DOMAIN reading_log :
                                 reading_log[i].type = PKT_ROTATION_DATA}) = 1
        /\ pollpc = "sleep" => reading_types \in RotationOrders

\* C18 witness: the first rotation reading of tracker 63 was handled with a
\* handshake, the rotation packet and a battery packet.
C18_Witness ==
    /\ pollpc = "sleep" /\ cur # None /\ cur.type = "rotation" /\ cur.tracker_id = 63
    /\ reading_types = <<PKT_HANDSHAKE, PKT_ROTATION_DATA, PKT_BATTERY>>
    /\ reading_log[2].rot = <<63, 0, -32768, 0, 1>>

\* C12: if from some point on the main thread stays inside the try block of
\* run (the run is Running and is not stopped), then the heartbeat thread
\* hands a heartbeat to the socket again and again, whatever the main thread
\* and the device do and whether the sends succeed.
C12_HeartbeatKeepsGoing == <>[](pollpc \in TryPcs) => []<><<send_heartbeat>>_vars

\* C12 witness: a heartbeat is built while the main thread waits after a read
\* error, no reading was ever handled, and the counter has wrapped.
C12_Witness ==
    /\ ~history /\ hbpc = "hb_send" /\ pollpc = "backoff"
    /\ seen = {} /\ hpkt.id = SeqWrap - 1

\* C21: when the process has ended after a run that started the two loops,
\* the heartbeat thread is not cut off in the middle of building and sending
\* a packet: it holds no packet that was built and not sent and is at none of
\* the steps between the call of build_heartbeat and the return of the send.
C21_BothLoopsEnded ==
    (pollpc = "exited" /\ connectResult = "ok")
        => (hbpc \notin {"hb_pack", "hb_load", "hb_store", "hb_send"} /\ hpkt = NoPkt)

\* C24: when run has returned, no device handle that connect opened is still
\* open.
C24_NoHandleLeftOpen ==
    pollpc = "exited" => ~devOpen

\* the first rotation packet of its tracker in the log
first_rotation(i) ==
    /\ log[i].type = PKT_ROTATION_DATA
    /\ \A j \in 1..(i - 1) : ~(log[j].type = PKT_ROTATION_DATA /\ log[j].tid = log[i].tid)
\* the packets of the main thread after packet i
poll_after(i) == {j \in DOMAIN log : j > i /\ log[j].tid # NoTracker}
least(S) == CHOOSE j \in S : \A k \in S : j <= k

\* C22: the next packet the main thread sends after the first rotation packet
\* of a tracker is the battery packet of the same tracker and the same
\* reading; as long as there is none, the main thread is on its way from the
\* send of that rotation packet to the send of the battery packet, or the
\* stop signal has ended the loop.
C22_BatteryFollows ==
    \A i \in DOMAIN log :
        first_rotation(i) =>
            LET later == poll_after(i)
            IN IF later = {}
               THEN \/ /\ pollpc \in {"now", "bat_pack", "bat_load", "bat_store", "bat_send"}
                       /\ cur.tracker_id = log[i].tid
                    \/ pollpc \notin TryPcs
               ELSE LET next == log[least(later)]
                    IN next.type = PKT_BATTERY /\ next.tid = log[i].tid /\ next.rd = log[i].rd

C22_FirstRotationThenBattery == []C22_BatteryFollows

\* C22 witness: a tracker registered by a device_info reading sent its first
\* rotation reading: rotation packet, then battery packet, no handshake.
C22_Witness ==
    /\ pollpc = "sleep" /\ cur # None /\ cur.type = "rotation" /\ nhandled = 2
    /\ reading_types = <<PKT_ROTATION_DATA, PKT_BATTERY>>
    /\ \E k \in DOMAIN log :
          log[k].type = PKT_HANDSHAKE /\ log[k].tid = cur.tracker_id /\ log[k].rd = 1

\* C23: whatever the outcome of the sends: a tracker whose handshake was
\* handed to the socket is registered as soon as line 323 has run and no
\* second handshake is ever sent for it; the battery time of a tracker is not
\* behind the time of any battery packet sent for it once line 344 has run,
\* and two battery packets of one tracker are more than BatteryInterval apart.
C23_UpdatesAfterEverySend ==
    /\ \A i \in DOMAIN log :
          log[i].type = PKT_HANDSHAKE =>
              /\ \A j \in DOMAIN log :
                    (j # i /\ log[j].tid = log[i].tid) => log[j].type # PKT_HANDSHAKE
              /\ (pollpc \in TryPcs /\ ~(pollpc = "hs_add" /\ cur.tracker_id = log[i].tid))
                    => log[i].tid \in connected_trackers
    /\ \A i \in DOMAIN log :
          log[i].type = PKT_BATTERY =>
              /\ (pollpc \in TryPcs /\ ~(pollpc = "bat_mark" /\ cur.tracker_id = log[i].tid))
                    => dict_get(last_battery_time, log[i].tid, 0) >= log[i].at
              /\ \A j \in DOMAIN log :
                    (j > i /\ log[j].type = PKT_BATTERY /\ log[j].tid = log[i].tid)
                        => log[j].at - log[i].at > BatteryInterval

C23_RegistryIgnoresSendOutcome == []C23_UpdatesAfterEverySend

\* C23 witness: the send of a tracker's handshake failed, the tracker is
\* registered, and a later reading of it sent a rotation packet and no
\* handshake.
C23_Witness ==
    \E i, j \in DOMAIN log :
        /\ i < j
        /\ log[i].type = PKT_HANDSHAKE /\ ~log[i].ok /\ log[i].rd = 1
        /\ log[j].type = PKT_ROTATION_DATA /\ log[j].tid = log[i].tid /\ log[j].rd = 2
        /\ log[i].tid \in connected_trackers
        /\ Cardinality(emitted(PKT_HANDSHAKE, log[i].tid)) = 1
====
